---- MODULE Spec2Model ----
(***************************************************************************)
(* Model of the mongo-hhvm-driver core: the BSON decoder                    *)
(* (src/src/bson_decode.cpp) and the insert / remove / update handlers of   *)
(* MongoCollection (src/src/MongoCollection.cpp).                           *)
(*                                                                         *)
(* A bson_t and a raw BSON string are sequences of bytes (0..255), read     *)
(* with 0-based offsets as the C code does.  An HHVM Array is a sequence    *)
(* of [k, v] pairs in insertion order; a Variant is a record tagged by t.   *)
(* The libbson iterator and reader the decoder calls are modelled by what   *)
(* they do on the bytes, for the element types the inputs here carry        *)
(* (utf8, document, array, undefined, oid, bool, date_time, null, int32).   *)
(***************************************************************************)
EXTENDS Integers, Sequences, FiniteSets, TLC

VARIABLES
    \* ---- decoder (bson_decode.cpp) ----
    bson,        \* the raw bytes handed to cbson_loads_from_string
    wire,        \* the element list the bytes were written from (ghost)
    damage,      \* how the bytes were damaged after writing (ghost)
    dpc,         \* "ready" before the decode call, "done" after it
    output,      \* what the decode call gave back: a return or a throw
    \* ---- CRUD handlers (MongoCollection.cpp) ----
    op,          \* the handler of the last call: none/insert/remove/update
    a_in,        \* insert: the document the caller passed
    caller_a,    \* insert: the caller's document after the call
    a,           \* insert: the handler's parameter after the call
    options,     \* the options Array of the last call
    drv_ok,      \* what the driver answered to the submitted write
    drv_msg,     \* error.message the driver set on failure
    drv_last,    \* the bson_t mongoc_collection_get_last_error points to
    drv_log,     \* the driver calls of the last call, in order
    held,        \* what the last call acquired and has not released
    result,      \* the last call's outcome: a return or a throw
    oid_inc,     \* bson_oid_init's counter: identifiers generated so far
    ncalls       \* handler calls made so far

dvars == <<bson, wire, damage, dpc, output>>
cvars == <<op, a_in, caller_a, a, options, drv_ok, drv_msg, drv_last, drv_log,
           held, result, oid_inc, ncalls>>
vars == <<bson, wire, damage, dpc, output, op, a_in, caller_a, a, options, drv_ok,
          drv_msg, drv_last, drv_log, held, result, oid_inc, ncalls>>

(***************************************************************************)
(* Bounds of the model.                                                     *)
(***************************************************************************)
MaxCalls == 2      \* handler calls in one run
MaxMatched == 2    \* largest nMatched / nModified the driver reports
MaxElems == 2      \* top-level elements of a document handed to the decoder
MaxMsec == 1500    \* largest |milliseconds since epoch| of a date_time element

(***************************************************************************)
(* BSON element type tags (the slots of gLoadsVisitors).                    *)
(***************************************************************************)
BSON_TYPE_EOD == 0
BSON_TYPE_UTF8 == 2
BSON_TYPE_DOCUMENT == 3
BSON_TYPE_ARRAY == 4
BSON_TYPE_UNDEFINED == 6
BSON_TYPE_OID == 7
BSON_TYPE_BOOL == 8
BSON_TYPE_DATE_TIME == 9
BSON_TYPE_NULL == 10
BSON_TYPE_INT32 == 16

(***************************************************************************)
(* Bytes.                                                                   *)
(***************************************************************************)
At(data, o) == data[o + 1]
Slice(data, o, n) == SubSeq(data, o + 1, o + n)

\* An unsigned little-endian 32-bit length.  Lengths of 2^31 and more exceed
\* every buffer; they are read as INT_MAX, which every comparison against a
\* buffer length treats the same way.
U32(data, o) ==
    IF At(data, o + 3) >= 128 THEN 2147483647
    ELSE At(data, o) + 256 * At(data, o + 1) + 65536 * At(data, o + 2)
         + 16777216 * At(data, o + 3)

\* A signed little-endian 32-bit integer (two's complement).
I32(data, o) ==
    At(data, o) + 256 * At(data, o + 1) + 65536 * At(data, o + 2)
    + 16777216 * (IF At(data, o + 3) >= 128 THEN At(data, o + 3) - 256
                  ELSE At(data, o + 3))

\* A signed little-endian 64-bit integer, for the values whose upper four
\* bytes are the sign extension of the lower four (those that fit 32 bits).
I64(data, o) ==
    CASE (\A i \in 4..7 : At(data, o + i) = 0) /\ At(data, o + 3) < 128 -> I32(data, o)
      [] (\A i \in 4..7 : At(data, o + i) = 255) /\ At(data, o + 3) >= 128 -> I32(data, o)

\* C's / and % on int64_t with a positive divisor: the quotient is truncated
\* toward zero and the remainder has the sign of the dividend.
c_div(x, y) == IF x >= 0 THEN x \div y ELSE -((-x) \div y)
c_mod(x, y) == x - y * c_div(x, y)

\* The bytes of a C string: up to, not including, the first NUL.
RECURSIVE CStr(_)
CStr(s) == IF s = <<>> \/ Head(s) = 0 THEN <<>> ELSE <<Head(s)>> \o CStr(Tail(s))

(***************************************************************************)
(* HHVM values.                                                             *)
(***************************************************************************)
NullV == [t |-> "null"]
BoolV(b) == [t |-> "bool", b |-> b]
IntV(i) == [t |-> "int", i |-> i]
StrV(s) == [t |-> "str", s |-> s]
ArrV(arr) == [t |-> "arr", a |-> arr]
ObjV(cls, args) == [t |-> "obj", cls |-> cls, args |-> args]

\* create_object: an instance of className constructed with params.
create_object(className, params) == ObjV(className, params)

Array_keys(arr) == [i \in 1..Len(arr) |-> arr[i].k]
Array_exists(arr, key) == \E i \in 1..Len(arr) : arr[i].k = key

\* Array::add: a new key is appended; an existing key keeps its place.  (A
\* key spelling a decimal integer is stored by HHVM as that integer; keys are
\* kept here by their spelling, which leaves the order as it is.)
Array_add_front(arr, key, v) ==
    IF \E i \in 1..Len(arr) : arr[i].k = key
    THEN [i \in 1..Len(arr) |-> IF arr[i].k = key THEN [k |-> key, v |-> v] ELSE arr[i]]
    ELSE <<[k |-> key, v |-> v]>> \o arr
Array_add(arr, key, v) ==
    IF \E i \in 1..Len(arr) : arr[i].k = key
    THEN [i \in 1..Len(arr) |-> IF arr[i].k = key THEN [k |-> key, v |-> v] ELSE arr[i]]
    ELSE Append(arr, [k |-> key, v |-> v])

\* Array::operator[]: the value under key, null when the key is absent.
Array_get(arr, key) ==
    IF Array_exists(arr, key)
    THEN arr[CHOOSE i \in 1..Len(arr) : arr[i].k = key].v
    ELSE NullV

\* Variant::toBoolean and Variant::toInt64.
toBoolean(v) ==
    CASE v.t = "null" -> FALSE
      [] v.t = "bool" -> v.b
      [] v.t = "int" -> v.i # 0
      [] v.t = "str" -> ~(v.s = <<>> \/ v.s = <<48>>)
      [] v.t = "arr" -> v.a # <<>>
      [] OTHER -> TRUE
toInt64(v) ==
    CASE v.t = "null" -> 0
      [] v.t = "bool" -> IF v.b THEN 1 ELSE 0
      [] v.t = "int" -> v.i
      [] v.t = "arr" -> IF v.a = <<>> THEN 0 ELSE 1
      [] v.t = "obj" -> 1

(***************************************************************************)
(* libbson, as the decoder uses it.                                         *)
(***************************************************************************)
NULL == <<>>       \* a null bson_t pointer: no bytes at all

\* bson_init_static: the length is at least 5, equals the declared length
\* and the last byte is the terminating NUL.
bson_init_static(data, length) ==
    /\ length >= 5
    /\ length <= Len(data)
    /\ U32(data, 0) = length
    /\ At(data, length - 1) = 0

\* bson_reader_read on a data reader at offset 0: the first document of the
\* buffer, or NULL.
bson_reader_read(data) ==
    IF ~(4 < Len(data)) THEN NULL
    ELSE LET blen == I32(data, 0) IN
         IF blen < 5 THEN NULL
         ELSE IF blen > Len(data) THEN NULL
         ELSE IF ~bson_init_static(data, blen) THEN NULL
         ELSE Slice(data, 0, blen)

\* bson_iter_init: fails on a null pointer or on fewer than 5 bytes; the
\* iterator then stands at offset 4.
bson_iter_init(b) == b # NULL /\ Len(b) >= 5

\* bson_utf8_validate: every lead byte announces a sequence of 1 to 4 bytes
\* whose other bytes are continuation bytes; NUL only where allowed.
utf8_seq_len(c) ==
    IF c < 128 THEN 1
    ELSE IF c >= 192 /\ c < 224 THEN 2
    ELSE IF c >= 224 /\ c < 240 THEN 3
    ELSE IF c >= 240 /\ c < 248 THEN 4
    ELSE 0
RECURSIVE bson_utf8_validate(_, _)
bson_utf8_validate(s, allow_null) ==
    IF s = <<>> THEN TRUE
    ELSE LET n == utf8_seq_len(s[1]) IN
         /\ n > 0
         /\ n <= Len(s)
         /\ \A i \in 2..n : s[i] >= 128 /\ s[i] < 192
         /\ (s[1] = 0 => allow_null)
         /\ bson_utf8_validate(SubSeq(s, n + 1, Len(s)), allow_null)

\* The offset just after the key's NUL when the key that starts at offset o
\* ends inside the buffer, 0 when it does not.
RECURSIVE key_end(_, _)
key_end(raw, o) ==
    IF o >= Len(raw) THEN 0
    ELSE IF At(raw, o) = 0 THEN o + 1
    ELSE key_end(raw, o + 1)

Invalid(err) == [ok |-> FALSE, err_off |-> err]

\* bson_iter_next from next_off: the element there (type, key, payload
\* offset d1, offset of the next element), or "no element" with the error
\* offset: 0 at the end of the document, positive on corrupt bytes.
bson_iter_next(raw, off) ==
    LET o == key_end(raw, off + 1) IN
    IF o = 0 THEN Invalid(0)
    ELSE
      LET len == Len(raw)
          type == At(raw, off)
          key == Slice(raw, off + 1, o - off - 2)
          Elem(next_off) ==
              IF next_off >= len THEN Invalid(o)
              ELSE [ok |-> TRUE, type |-> type, key |-> key, off |-> off,
                    d1 |-> o, next_off |-> next_off, err_off |-> 0]
      IN
      CASE type = BSON_TYPE_UTF8 ->
             IF o + 4 >= len THEN Invalid(o)
             ELSE LET l == U32(raw, o) IN
                  IF l > len - (o + 4) THEN Invalid(o)
                  ELSE IF l = 0 \/ o + 4 + l >= len THEN Invalid(o)
                  ELSE IF At(raw, o + 4 + l - 1) # 0 THEN Invalid(o + 4 + l - 1)
                  ELSE Elem(o + 4 + l)
        [] type \in {BSON_TYPE_DOCUMENT, BSON_TYPE_ARRAY} ->
             IF o + 4 > len THEN Invalid(o)
             ELSE LET l == U32(raw, o) IN
                  IF l > len \/ l > len - o THEN Invalid(o)
                  ELSE Elem(o + l)
        [] type = BSON_TYPE_OID -> Elem(o + 12)
        [] type = BSON_TYPE_DATE_TIME -> Elem(o + 8)
        [] type = BSON_TYPE_BOOL ->
             IF o >= len THEN Invalid(o)
             ELSE IF At(raw, o) \notin {0, 1} THEN Invalid(o)
             ELSE Elem(o + 1)
        [] type = BSON_TYPE_INT32 -> Elem(o + 4)
        [] type \in {BSON_TYPE_NULL, BSON_TYPE_UNDEFINED} -> Elem(o)
        [] OTHER -> Invalid(o)

\* bson_oid_to_string: 24 lowercase hexadecimal digits.
HexDigit(n) == IF n < 10 THEN 48 + n ELSE 87 + n
RECURSIVE bson_oid_to_string(_)
bson_oid_to_string(oid) ==
    IF oid = <<>> THEN <<>>
    ELSE <<HexDigit(Head(oid) \div 16), HexDigit(Head(oid) % 16)>>
         \o bson_oid_to_string(Tail(oid))

(***************************************************************************)
(* bson_decode.cpp: the visitors.  Each takes the key, the element's value  *)
(* and the output Array, and gives back the output Array and the "stop      *)
(* traversal" signal it returns.                                            *)
(***************************************************************************)
cbson_loads_visit_utf8(key, v_utf8, out) ==
    [out |-> Array_add(out, key, StrV(CStr(v_utf8))), ret |-> FALSE]

cbson_loads_visit_oid(key, oid, out) ==
    [out |-> Array_add(out, key,
                 create_object("MongoId", <<StrV(bson_oid_to_string(oid))>>)),
     ret |-> FALSE]

cbson_loads_visit_bool(key, v_bool, out) ==
    [out |-> Array_add(out, key, BoolV(v_bool)), ret |-> FALSE]

cbson_loads_visit_date_time(key, msec_since_epoch, out) ==
    LET msec == msec_since_epoch IN
    [out |-> Array_add(out, key,
                 create_object("MongoDate",
                     <<IntV(c_div(msec, 1000)), IntV(c_mod(msec, 1000) * 1000)>>)),
     ret |-> FALSE]

cbson_loads_visit_null(key, out) ==
    [out |-> Array_add(out, key, NullV), ret |-> FALSE]

cbson_loads_visit_int32(key, v_int32, out) ==
    [out |-> Array_add(out, key, IntV(v_int32)), ret |-> FALSE]

RECURSIVE bson_iter_visit_all(_, _, _)

\* What a container visitor does once the child traversal has given `child`
\* (its accumulator and its stop signal).
splice_always(key, child, ret) ==
    [out |-> Array_add(ret, key, ArrV(child.out)), ret |-> FALSE]
splice(key, child, ret) ==
    [out |-> IF ~child.stop THEN Array_add(ret, key, ArrV(child.out)) ELSE ret,
     ret |-> FALSE]

cbson_loads_visit_document(key, v_document, ret) ==
    IF bson_iter_init(v_document)
    THEN splice(key, bson_iter_visit_all(v_document, 4, <<>>), ret)
    ELSE [out |-> ret, ret |-> FALSE]

cbson_loads_visit_array(key, v_array, ret) ==
    IF bson_iter_init(v_array)
    THEN splice(key, bson_iter_visit_all(v_array, 4, <<>>), ret)
    ELSE [out |-> ret, ret |-> FALSE]

\* gLoadsVisitors applied to the element `it` of raw: the visitor of its
\* type, or nothing where the table holds NULL (undefined).  `bad` tells
\* that libbson itself stopped on the element (a utf8 value that is not
\* valid UTF-8) before calling the visitor.
visit_element(raw, it, out) ==
    CASE it.type = BSON_TYPE_UTF8 ->
           LET l == U32(raw, it.d1)
               utf8 == Slice(raw, it.d1 + 4, l - 1)
           IN IF ~bson_utf8_validate(utf8, TRUE)
              THEN [out |-> out, ret |-> TRUE, bad |-> TRUE]
              ELSE cbson_loads_visit_utf8(it.key, Slice(raw, it.d1 + 4, l), out)
                   @@ [bad |-> FALSE]
      [] it.type = BSON_TYPE_DOCUMENT ->
           LET l == U32(raw, it.d1)
               b == Slice(raw, it.d1, l)
           IN IF bson_init_static(b, l)
              THEN cbson_loads_visit_document(it.key, b, out) @@ [bad |-> FALSE]
              ELSE [out |-> out, ret |-> FALSE, bad |-> FALSE]
      [] it.type = BSON_TYPE_ARRAY ->
           LET l == U32(raw, it.d1)
               b == Slice(raw, it.d1, l)
           IN IF bson_init_static(b, l)
              THEN cbson_loads_visit_array(it.key, b, out) @@ [bad |-> FALSE]
              ELSE [out |-> out, ret |-> FALSE, bad |-> FALSE]
      [] it.type = BSON_TYPE_OID ->
           cbson_loads_visit_oid(it.key, Slice(raw, it.d1, 12), out)
           @@ [bad |-> FALSE]
      [] it.type = BSON_TYPE_BOOL ->
           cbson_loads_visit_bool(it.key, At(raw, it.d1) # 0, out)
           @@ [bad |-> FALSE]
      [] it.type = BSON_TYPE_DATE_TIME ->
           cbson_loads_visit_date_time(it.key, I64(raw, it.d1), out)
           @@ [bad |-> FALSE]
      [] it.type = BSON_TYPE_NULL ->
           cbson_loads_visit_null(it.key, out) @@ [bad |-> FALSE]
      [] it.type = BSON_TYPE_INT32 ->
           cbson_loads_visit_int32(it.key, I32(raw, it.d1), out)
           @@ [bad |-> FALSE]
      [] OTHER -> [out |-> out, ret |-> FALSE, bad |-> FALSE]

\* bson_iter_visit_all from offset off: the output Array, whether the
\* traversal was stopped early (the value the function returns), and
\* iter->err_off (positive when corrupt bytes ended the traversal).
bson_iter_visit_all(raw, off, out) ==
    LET it == bson_iter_next(raw, off) IN
    IF ~it.ok THEN [out |-> out, stop |-> FALSE, err_off |-> it.err_off]
    ELSE LET r == visit_element(raw, it, out) IN
         IF r.ret
         THEN [out |-> r.out, stop |-> TRUE,
               err_off |-> IF r.bad THEN it.off ELSE 0]
         ELSE bson_iter_visit_all(raw, it.next_off, r.out)

Return(v) == [kind |-> "return", value |-> v]
Throw(cls, msg) == [kind |-> "throw", cls |-> cls, msg |-> msg]
NoResult == [kind |-> "none"]

\* cbson_loads: throws when the iterator cannot be initialised; otherwise
\* whatever the traversal put into ret, the traversal's own result unread.
cbson_loads(b) ==
    IF ~bson_iter_init(b)
    THEN Throw("MongoException", "Failed to initialize BSON iterator")
    ELSE Return(bson_iter_visit_all(b, 4, <<>>).out)

\* cbson_loads_from_string: throws when the reader yields no document.
cbson_loads_from_string(str) ==
    LET obj == bson_reader_read(str) IN
    IF obj = NULL
    THEN Throw("MongoException",
               "Unexpected end of BSON. Input document is likely corrupted!")
    ELSE cbson_loads(obj)

(***************************************************************************)
(* Writing BSON.  A wire element is [type, key, val]: val is the string's   *)
(* bytes (utf8), the child's element list (document, array), the 12 bytes   *)
(* (oid), a boolean (bool), an integer (int32), or 0 (null, undefined).     *)
(***************************************************************************)
LE32(n) ==
    LET m == IF n < 0 THEN (n + 2147483647) + 1 ELSE n IN
    <<m % 256, (m \div 256) % 256, (m \div 65536) % 256,
      ((m \div 16777216) % 256) + (IF n < 0 THEN 128 ELSE 0)>>

LE64(n) ==
    LE32(n) \o (IF n < 0 THEN <<255, 255, 255, 255>> ELSE <<0, 0, 0, 0>>)

El(type, key, val) == [type |-> type, key |-> key, val |-> val]

RECURSIVE bson_append(_)
bson_new(elems) ==
    LET body == bson_append(elems) IN LE32(Len(body) + 5) \o body \o <<0>>
bson_append(elems) ==
    IF elems = <<>> THEN <<>>
    ELSE LET e == Head(elems)
             payload ==
               CASE e.type = BSON_TYPE_UTF8 -> LE32(Len(e.val) + 1) \o e.val \o <<0>>
                 [] e.type \in {BSON_TYPE_DOCUMENT, BSON_TYPE_ARRAY} -> bson_new(e.val)
                 [] e.type = BSON_TYPE_OID -> e.val
                 [] e.type = BSON_TYPE_BOOL -> IF e.val THEN <<1>> ELSE <<0>>
                 [] e.type = BSON_TYPE_INT32 -> LE32(e.val)
                 [] e.type = BSON_TYPE_DATE_TIME -> LE64(e.val)
                 [] OTHER -> <<>>
         IN <<e.type>> \o e.key \o <<0>> \o payload \o bson_append(Tail(elems))

\* Keys, as the bytes of their characters.
K_id == <<95, 105, 100>>
K_a == <<97>>
K_b == <<98>>
K_c == <<99>>
K_d == <<100>>
K_e == <<101>>
K_l == <<108>>
K_n == <<110>>
K_m == <<109>>
K_q == <<113>>
K_s == <<115>>
K_t == <<116>>
K_u == <<117>>
K_x == <<120>>
K_i0 == <<48>>
K_i1 == <<49>>
K_w == <<119>>
K_justOne == <<106, 117, 115, 116, 79, 110, 101>>
K_multiple == <<109, 117, 108, 116, 105, 112, 108, 101>>
K_upsert == <<117, 112, 115, 101, 114, 116>>
K_ok == <<111, 107>>
K_nModified == <<110, 77, 111, 100, 105, 102, 105, 101, 100>>
K_nMatched == <<110, 77, 97, 116, 99, 104, 101, 100>>
K_updatedExisting == <<117, 112, 100, 97, 116, 101, 100, 69, 120, 105, 115, 116, 105, 110, 103>>
K_err == <<101, 114, 114>>
K_errmsg == <<101, 114, 114, 109, 115, 103>>
K_lastOp == <<108, 97, 115, 116, 79, 112>>
K_mongoRaw == <<109, 111, 110, 103, 111, 82, 97, 119>>
K_writeErrors == <<119, 114, 105, 116, 101, 69, 114, 114, 111, 114, 115>>
K_code == <<99, 111, 100, 101>>

\* The 12 bytes of 24 hexadecimal digits.
HexVal(c) == IF c >= 97 THEN c - 87 ELSE c - 48
RECURSIVE bson_oid_init_from_string(_)
bson_oid_init_from_string(str) ==
    IF Len(str) < 2 THEN <<>>
    ELSE <<16 * HexVal(str[1]) + HexVal(str[2])>>
         \o bson_oid_init_from_string(SubSeq(str, 3, Len(str)))

\* Whether an Array's keys are "0", "1", ... in order (a list).
IsList(arr) == \A i \in 1..Len(arr) : arr[i].k = <<47 + i>>

\* encodeToBSON (contrib/encode.h): the Array's entries in insertion order,
\* each under its own key with the element type of its value; the Array
\* itself is not changed.
RECURSIVE encode_elements(_)
encode_elements(arr) ==
    IF arr = <<>> THEN <<>>
    ELSE LET k == Head(arr).k
             v == Head(arr).v
             e == CASE v.t = "null" -> El(BSON_TYPE_NULL, k, 0)
                    [] v.t = "bool" -> El(BSON_TYPE_BOOL, k, v.b)
                    [] v.t = "int" -> El(BSON_TYPE_INT32, k, v.i)
                    [] v.t = "str" -> El(BSON_TYPE_UTF8, k, v.s)
                    [] v.t = "arr" ->
                         El(IF v.a # <<>> /\ IsList(v.a) THEN BSON_TYPE_ARRAY
                            ELSE BSON_TYPE_DOCUMENT, k, encode_elements(v.a))
                    [] v.t = "obj" ->
                         El(BSON_TYPE_OID, k, bson_oid_init_from_string(v.args[1].s))
         IN <<e>> \o encode_elements(Tail(arr))
encodeToBSON(arr) == bson_new(encode_elements(arr))

(***************************************************************************)
(* The decoder's inputs: documents of up to MaxElems elements with distinct *)
(* keys drawn from Pool, written to bytes, then left alone, cut short, or   *)
(* given another declared length.                                           *)
(***************************************************************************)
OID1 == <<84, 1, 2, 3, 4, 5, 6, 7, 8, 9, 171, 205>>
BadUtf8 == <<255>>

Pool ==
    { El(BSON_TYPE_UTF8, K_a, <<120>>),
      El(BSON_TYPE_NULL, K_a, 0),
      El(BSON_TYPE_BOOL, K_b, TRUE),
      El(BSON_TYPE_INT32, K_b, 0),
      El(BSON_TYPE_INT32, K_c, -1),
      El(BSON_TYPE_UNDEFINED, K_u, 0),
      El(BSON_TYPE_OID, K_id, OID1),
      El(BSON_TYPE_DOCUMENT, K_d,
         <<El(BSON_TYPE_INT32, K_b, 1), El(BSON_TYPE_NULL, K_a, 0),
           El(BSON_TYPE_UNDEFINED, K_u, 0), El(BSON_TYPE_UTF8, K_c, <<120, 121>>)>>),
      El(BSON_TYPE_ARRAY, K_l,
         <<El(BSON_TYPE_UTF8, K_i0, <<120>>), El(BSON_TYPE_BOOL, K_i1, FALSE)>>),
      El(BSON_TYPE_DOCUMENT, K_e,
         <<El(BSON_TYPE_NULL, K_t, 0), El(BSON_TYPE_UTF8, K_s, BadUtf8),
           El(BSON_TYPE_NULL, K_q, 0)>>),
      El(BSON_TYPE_DOCUMENT, K_n,
         <<El(BSON_TYPE_DOCUMENT, K_m,
              <<El(BSON_TYPE_NULL, K_q, 0), El(BSON_TYPE_INT32, K_a, 2)>>),
           El(BSON_TYPE_NULL, K_x, 0)>>),
      El(BSON_TYPE_ARRAY, K_x,
         <<El(BSON_TYPE_DOCUMENT, K_i0, <<El(BSON_TYPE_UTF8, K_s, BadUtf8)>>),
           El(BSON_TYPE_NULL, K_i1, 0)>>),
      \* a child whose second element carries the end-of-document tag
      El(BSON_TYPE_DOCUMENT, K_w,
         <<El(BSON_TYPE_NULL, K_t, 0), El(BSON_TYPE_EOD, K_q, 0),
           El(BSON_TYPE_NULL, K_s, 0)>>) }

DistinctKeys(elems) ==
    \A i, j \in 1..Len(elems) : i # j => elems[i].key # elems[j].key

WireDocs ==
    UNION { { w \in [1..n -> Pool] : DistinctKeys(w) } : n \in 0..MaxElems }

Damages(w) ==
    LET n == Len(bson_new(w)) IN
    {[kind |-> "none", n |-> n]}
    \cup {[kind |-> "truncate", n |-> k] : k \in 0..(n - 1)}
    \cup {[kind |-> "length", n |-> k] : k \in (5..(n + 1)) \ {n}}

Damaged(bytes, dmg) ==
    CASE dmg.kind = "none" -> bytes
      [] dmg.kind = "truncate" -> SubSeq(bytes, 1, dmg.n)
      [] dmg.kind = "length" -> <<dmg.n>> \o Tail(bytes)

\* The CRUD handlers before any call.
CrudIdle ==
    /\ op = "none"
    /\ a_in = <<>>
    /\ caller_a = <<>>
    /\ a = <<>>
    /\ options = <<>>
    /\ drv_ok = TRUE
    /\ drv_msg = ""
    /\ drv_last = NULL
    /\ drv_log = <<>>
    /\ held = {}
    /\ result = NoResult
    /\ oid_inc = 0
    /\ ncalls = 0

\* The decoder before any call.
DecodeIdle ==
    /\ bson = NULL
    /\ wire = <<>>
    /\ damage = [kind |-> "none", n |-> 0]
    /\ dpc = "idle"
    /\ output = [fn |-> "none", res |-> NoResult]

InitDecode ==
    /\ wire \in WireDocs
    /\ damage \in Damages(wire)
    /\ bson = Damaged(bson_new(wire), damage)
    /\ dpc = "ready"
    /\ output = [fn |-> "none", res |-> NoResult]
    /\ CrudIdle

\* A call of cbson_loads_from_string on the raw bytes.
LoadsFromString ==
    /\ dpc = "ready"
    /\ output' = [fn |-> "cbson_loads_from_string",
                  res |-> cbson_loads_from_string(bson)]
    /\ dpc' = "done"
    /\ UNCHANGED <<bson, wire, damage>>
    /\ UNCHANGED cvars

\* A call of cbson_loads on a bson_t: the bytes are a bson_t when
\* bson_init_static accepts them; no bytes at all is the null pointer.
Loads ==
    /\ dpc = "ready"
    /\ bson = NULL \/ bson_init_static(bson, Len(bson))
    /\ output' = [fn |-> "cbson_loads", res |-> cbson_loads(bson)]
    /\ dpc' = "done"
    /\ UNCHANGED <<bson, wire, damage>>
    /\ UNCHANGED cvars

NextDecode == LoadsFromString \/ Loads

SpecDecode == InitDecode /\ [][NextDecode]_vars

\* The decoder handed a document of one date_time element, for every
\* millisecond count from -MaxMsec to MaxMsec.
InitDate ==
    /\ wire \in {<<El(BSON_TYPE_DATE_TIME, K_t, msec)>> : msec \in (-MaxMsec)..MaxMsec}
    /\ damage = [kind |-> "none", n |-> Len(bson_new(wire))]
    /\ bson = bson_new(wire)
    /\ dpc = "ready"
    /\ output = [fn |-> "none", res |-> NoResult]
    /\ CrudIdle

SpecDate == InitDate /\ [][NextDecode]_vars

(***************************************************************************)
(* MongoCollection.cpp: the pieces of the handlers.                         *)
(***************************************************************************)
\* bson_oid_init: a new identifier from the process-wide counter.
bson_oid_init(inc) == <<84, 0, 0, 0, 1, 2, 3, 4, 5, 0, 0, inc>>

\* insert, lines 61-70: the parameter's Array, with a new MongoId under _id
\* when it has no _id key.
ensure_id(doc_array, inc) ==
    IF ~Array_exists(doc_array, K_id)
    THEN Array_add(doc_array, K_id,
             create_object("MongoId", <<StrV(bson_oid_to_string(bson_oid_init(inc)))>>))
    ELSE doc_array

\* remove, lines 122-131: the delete flag the options select.
delete_flag_if_present(opts) ==
    IF opts # <<>> /\ Array_exists(opts, K_justOne)
    THEN "MONGOC_DELETE_SINGLE_REMOVE" ELSE "MONGOC_DELETE_NONE"
delete_flag(opts) ==
    IF opts # <<>> /\ toBoolean(Array_get(opts, K_justOne)) = TRUE
    THEN "MONGOC_DELETE_SINGLE_REMOVE" ELSE "MONGOC_DELETE_NONE"

\* update, lines 172-186: the update flag the options select; `multiple` is
\* looked at first and `upsert` overwrites it.
update_flag_multi_wins(opts) ==
    IF opts = <<>> THEN "MONGOC_UPDATE_NONE"
    ELSE IF toBoolean(Array_get(opts, K_multiple)) = TRUE THEN "MONGOC_UPDATE_MULTI_UPDATE"
    ELSE IF toBoolean(Array_get(opts, K_upsert)) = TRUE THEN "MONGOC_UPDATE_UPSERT"
    ELSE "MONGOC_UPDATE_NONE"
update_flag(opts) ==
    IF opts = <<>> THEN "MONGOC_UPDATE_NONE"
    ELSE LET f1 == IF toBoolean(Array_get(opts, K_multiple)) = TRUE
                   THEN "MONGOC_UPDATE_MULTI_UPDATE" ELSE "MONGOC_UPDATE_NONE"
         IN IF toBoolean(Array_get(opts, K_upsert)) = TRUE
            THEN "MONGOC_UPDATE_UPSERT" ELSE f1

\* A write submitted to the driver, and the fetch of its last result.
Submit(call, flags, docs) ==
    [call |-> call, flags |-> flags, docs |-> docs,
     w |-> "MONGOC_WRITE_CONCERN_W_DEFAULT"]
GetLastError == [call |-> "mongoc_collection_get_last_error"]

\* insert lines 83-89, remove lines 135-145: a failed write throws with the
\* driver's message; a successful one returns ret.
write_result_swallowed(ret, message) == Return(BoolV(ret))
write_result(ret, message) ==
    IF ~ret THEN Throw("MongoCursorException", message) ELSE Return(BoolV(ret))

\* update, lines 191-197: the driver calls made; the last result is fetched
\* after the throw on failure, so only when the write succeeded.
update_calls_fetch_always(ret, submit) == <<submit, GetLastError>>
update_calls(ret, submit) ==
    IF ~ret THEN <<submit>> ELSE <<submit, GetLastError>>

\* update, lines 205-224: the Array returned, built from the decoded reply.
crud_result_swapped(collectionReturn) ==
    LET o1 == Array_add(<<>>, K_ok, IntV(1))
        o2 == Array_add(o1, K_nModified, Array_get(collectionReturn, K_nMatched))
        o3 == Array_add(o2, K_n, Array_get(collectionReturn, K_nModified))
        o4 == Array_add(o3, K_updatedExisting,
                  BoolV(toInt64(Array_get(collectionReturn, K_nModified)) > 0))
        o5 == Array_add(o4, K_err, Array_get(collectionReturn, K_writeErrors))
        o6 == Array_add(o5, K_errmsg, Array_get(collectionReturn, K_writeErrors))
        o7 == Array_add(o6, K_lastOp, create_object("MongoTimestamp", <<>>))
    IN Array_add(o7, K_mongoRaw, ArrV(collectionReturn))
crud_result(collectionReturn) ==
    LET o1 == Array_add(<<>>, K_ok, IntV(1))
        o2 == Array_add(o1, K_nModified, Array_get(collectionReturn, K_nModified))
        o3 == Array_add(o2, K_n, Array_get(collectionReturn, K_nMatched))
        o4 == Array_add(o3, K_updatedExisting,
                  BoolV(toInt64(Array_get(collectionReturn, K_nMatched)) > 0))
        o5 == Array_add(o4, K_err, Array_get(collectionReturn, K_writeErrors))
        o6 == Array_add(o5, K_errmsg, Array_get(collectionReturn, K_writeErrors))
        o7 == Array_add(o6, K_lastOp, create_object("MongoTimestamp", <<>>))
    IN Array_add(o7, K_mongoRaw, ArrV(collectionReturn))

(***************************************************************************)
(* What the callers pass and what the driver answers.                       *)
(***************************************************************************)
Entry(k, v) == [k |-> k, v |-> v]

InsertDocs ==
    { <<>>,
      <<Entry(K_a, IntV(1))>>,
      <<Entry(K_id, IntV(7))>>,
      <<Entry(K_a, StrV(<<120>>)),
        Entry(K_id, create_object("MongoId", <<StrV(bson_oid_to_string(OID1))>>))>>,
      <<Entry(K_id, NullV), Entry(K_b, BoolV(TRUE))>>,
      <<Entry(K_d, ArrV(<<Entry(K_id, IntV(1))>>)), Entry(K_c, IntV(-1))>> }

Criteria == { <<Entry(K_a, IntV(1))>> }
NewObjects == { <<Entry(K_b, IntV(2))>> }

\* Every Array holding some of the keys, in the order given, each with one
\* of the values.
RECURSIVE OptionArrays(_, _)
OptionArrays(keys, values) ==
    IF keys = <<>> THEN {<<>>}
    ELSE LET rest == OptionArrays(Tail(keys), values) IN
         rest \cup {<<Entry(Head(keys), v)>> \o r : v \in values, r \in rest}

Flags == {BoolV(TRUE), BoolV(FALSE)}
InsertOptions == {<<>>, <<Entry(K_w, IntV(1))>>}
RemoveOptions ==
    OptionArrays(<<K_justOne>>, Flags)
    \cup {<<Entry(K_w, IntV(1))>> \o o : o \in OptionArrays(<<K_justOne>>, Flags)}
UpdateOptions ==
    OptionArrays(<<K_multiple, K_upsert>>, Flags)
    \cup {<<Entry(K_w, IntV(1))>>, <<Entry(K_upsert, BoolV(TRUE)), Entry(K_multiple, BoolV(TRUE))>>}

DriverMessages == {"E11000 duplicate key error", "Failed to connect to target host"}

\* The last-operation results the driver builds after a successful update.
WriteErrorLists ==
    { <<>>, <<El(BSON_TYPE_DOCUMENT, K_i0, <<El(BSON_TYPE_INT32, K_code, 11000)>>)>> }
LastErrors ==
    { bson_new(<<El(BSON_TYPE_INT32, K_nMatched, m[1]), El(BSON_TYPE_INT32, K_nModified, m[2]),
                 El(BSON_TYPE_ARRAY, K_writeErrors, e)>>)
        : m \in {c \in (0..MaxMatched) \X (0..MaxMatched) : c[2] <= c[1]},
          e \in WriteErrorLists }
    \cup { bson_new(<<>>),
           bson_new(<<El(BSON_TYPE_INT32, K_nModified, 1)>>),
           bson_new(<<El(BSON_TYPE_INT32, K_nMatched, 1),
                      El(BSON_TYPE_INT32, K_nModified, 0)>>) }

(***************************************************************************)
(* MongoCollection.cpp: the handlers, one action per call.                  *)
(***************************************************************************)
\* MongoCollection::insert.  The document is a by-value parameter: the
\* handler adds _id to its own Variant a; the caller's document is the one
\* it passed.
Insert(doc, opts, ret, message) ==
    LET doc_array == ensure_id(doc, oid_inc + 1)
        bdoc == encodeToBSON(doc_array)
    IN
    /\ ncalls < MaxCalls
    /\ ncalls' = ncalls + 1
    /\ op' = "insert"
    /\ a_in' = doc
    /\ caller_a' = doc
    /\ a' = doc_array
    /\ options' = opts
    /\ oid_inc' = IF ~Array_exists(doc, K_id) THEN oid_inc + 1 ELSE oid_inc
    /\ drv_ok' = ret
    /\ drv_msg' = message
    /\ drv_last' = NULL
    /\ drv_log' = <<Submit("mongoc_collection_insert", "MONGOC_INSERT_NONE", <<bdoc>>)>>
    /\ result' = write_result(ret, message)
    \* acquired at lines 59, 71, 80; released at lines 87-88, which the
    \* throw at line 85 skips
    /\ held' = {"collection", "doc", "write_concern"}
                \ (IF ret THEN {"collection", "doc"} ELSE {})
    /\ UNCHANGED dvars

\* MongoCollection::remove.
Remove(criteria, opts, ret, message) ==
    LET criteria_b == encodeToBSON(criteria) IN
    /\ ncalls < MaxCalls
    /\ ncalls' = ncalls + 1
    /\ op' = "remove"
    /\ a_in' = <<>>
    /\ caller_a' = <<>>
    /\ a' = <<>>
    /\ options' = opts
    /\ oid_inc' = oid_inc
    /\ drv_ok' = ret
    /\ drv_msg' = message
    /\ drv_last' = NULL
    /\ drv_log' = <<Submit("mongoc_collection_delete", delete_flag(opts), <<criteria_b>>)>>
    /\ result' = write_result(ret, message)
    \* acquired at lines 119, 121, 133; released at lines 140-141, which
    \* the throw at line 138 skips
    /\ held' = {"collection", "criteria_b", "write_concern"}
                \ (IF ret THEN {"collection", "criteria_b"} ELSE {})
    /\ UNCHANGED dvars

\* MongoCollection::update.  selector and update are destroyed right after
\* the submit; the collection only after the reply has been decoded.
Update(criteria, new_object, opts, ret, message, last_error) ==
    LET selector == encodeToBSON(criteria)
        update == encodeToBSON(new_object)
        submit == Submit("mongoc_collection_update", update_flag(opts),
                         <<selector, update>>)
        collectionReturn == cbson_loads(last_error)
    IN
    /\ ncalls < MaxCalls
    /\ ncalls' = ncalls + 1
    /\ op' = "update"
    /\ a_in' = <<>>
    /\ caller_a' = <<>>
    /\ a' = <<>>
    /\ options' = opts
    /\ oid_inc' = oid_inc
    /\ drv_ok' = ret
    /\ drv_msg' = message
    /\ drv_last' = IF ret THEN last_error ELSE NULL
    /\ drv_log' = update_calls(ret, submit)
    /\ result' = IF ~ret THEN Throw("MongoCursorException", message)
                 ELSE IF collectionReturn.kind = "throw" THEN collectionReturn
                 ELSE Return(ArrV(crud_result(collectionReturn.value)))
    \* acquired at lines 166, 168, 169, 188; selector and update released
    \* at lines 192-193, the collection at line 208, which a throw at line
    \* 195 or inside cbson_loads skips
    /\ held' = ({"collection", "selector", "update", "write_concern"}
                 \ {"selector", "update"})
                \ (IF ret /\ collectionReturn.kind # "throw" THEN {"collection"} ELSE {})
    /\ UNCHANGED dvars

Init == DecodeIdle /\ CrudIdle

Next ==
    \/ \E doc \in InsertDocs, opts \in InsertOptions :
          \/ Insert(doc, opts, TRUE, "")
          \/ \E message \in DriverMessages : Insert(doc, opts, FALSE, message)
    \/ \E criteria \in Criteria, opts \in RemoveOptions :
          \/ Remove(criteria, opts, TRUE, "")
          \/ \E message \in DriverMessages : Remove(criteria, opts, FALSE, message)
    \/ \E criteria \in Criteria, new_object \in NewObjects, opts \in UpdateOptions :
          \/ \E last_error \in LastErrors :
                Update(criteria, new_object, opts, TRUE, "", last_error)
          \/ \E message \in DriverMessages :
                Update(criteria, new_object, opts, FALSE, message, NULL)

Spec == Init /\ [][Next]_vars

(***************************************************************************)
(* Claims about the handlers, stated for the specification Spec.            *)
(***************************************************************************)
\* The elements bson_iter_next yields from offset off on.
RECURSIVE Elements(_, _)
Elements(raw, off) ==
    LET it == bson_iter_next(raw, off) IN
    IF ~it.ok THEN <<>> ELSE <<it>> \o Elements(raw, it.next_off)

KeyCount(arr, key) == Cardinality({i \in 1..Len(arr) : arr[i].k = key})
IsTrue(opts, key) == Array_exists(opts, key) /\ Array_get(opts, key) = BoolV(TRUE)
IsFetch(c) == c.call = "mongoc_collection_get_last_error"
MongoIdOf(oid) == ObjV("MongoId", <<StrV(bson_oid_to_string(oid))>>)

\* What C1 says of one insert call, about the document `after` that is to
\* hold the identifier once the call is over.
InsertAssignsId(after) ==
    (op' = "insert" /\ ncalls' = ncalls + 1) =>
        LET raw == drv_log'[1].docs[1]
            sub == Elements(raw, 4)
            ids == {i \in 1..Len(sub) : sub[i].key = K_id}
            fresh == bson_oid_init(oid_inc + 1)
        IN IF ~Array_exists(a_in', K_id)
           THEN /\ oid_inc' = oid_inc + 1
                /\ \A n \in 0..oid_inc : bson_oid_init(n) # fresh
                /\ Cardinality(ids) = 1
                /\ \A i \in ids : /\ sub[i].type = BSON_TYPE_OID
                                  /\ Slice(raw, sub[i].d1, 12) = fresh
                /\ KeyCount(after, K_id) = 1
                /\ Array_get(after, K_id) = MongoIdOf(fresh)
           ELSE /\ oid_inc' = oid_inc
                /\ Cardinality(ids) = 1
                /\ KeyCount(after, K_id) = 1
                /\ Array_get(after, K_id) = Array_get(a_in', K_id)

\* C1 (as claimed): after an insert of a document without _id, the document
\* submitted to the driver and the caller's document both hold exactly one
\* _id, a freshly generated ObjectId; a document that has an _id keeps it and
\* no identifier is generated; nothing is submitted without an _id.
C1_InsertAssignsId == [][InsertAssignsId(caller_a')]_vars

\* C1, the part that holds: the same statement about the handler's own
\* by-value parameter instead of the caller's document.
C1_ParameterAssignedId == [][InsertAssignsId(a')]_vars

\* C2: whenever the driver reports that the submitted write failed, the
\* call throws with the driver's message and returns no value.
C2_WriteFailureThrows ==
    (op # "none" /\ ~drv_ok) =>
        /\ result.kind = "throw"
        /\ result.msg = drv_msg

\* C2 witness: an insert whose write the driver rejected.
C2_Witness ==
    /\ op = "insert"
    /\ ~drv_ok
    /\ drv_msg = "E11000 duplicate key error"
    /\ result.kind = "throw"

\* C3 (as claimed): everything a call acquired is released when the call is
\* over, on success and on failure.
C3_AllReleased == op # "none" => held = {}

\* C5: the Array a successful update returns has n = nMatched, nModified =
\* nModified, updatedExisting = (nMatched > 0), err and errmsg = writeErrors
\* and mongoRaw = the whole decoded reply.
C5_UpdateProjection ==
    (op = "update" /\ result.kind = "return") =>
        LET r == cbson_loads(drv_last).value
            o == result.value.a
            m == Array_get(r, K_nMatched)
        IN /\ \A k \in {K_n, K_nModified, K_updatedExisting, K_err, K_errmsg, K_mongoRaw} :
                  KeyCount(o, k) = 1
           /\ Array_get(o, K_n) = m
           /\ Array_get(o, K_nModified) = Array_get(r, K_nModified)
           /\ Array_get(o, K_updatedExisting) = BoolV(m.t = "int" /\ m.i > 0)
           /\ Array_get(o, K_err) = Array_get(r, K_writeErrors)
           /\ Array_get(o, K_errmsg) = Array_get(r, K_writeErrors)
           /\ Array_get(o, K_mongoRaw) = ArrV(r)

\* C5 witness: the reply {nMatched: 2, nModified: 1, writeErrors: []} gave
\* n = 2, nModified = 1, updatedExisting = true, err = [].
C5_Witness ==
    /\ op = "update"
    /\ result.kind = "return"
    /\ drv_last = bson_new(<<El(BSON_TYPE_INT32, K_nMatched, 2),
                             El(BSON_TYPE_INT32, K_nModified, 1),
                             El(BSON_TYPE_ARRAY, K_writeErrors, <<>>)>>)
    /\ Array_get(result.value.a, K_n) = IntV(2)
    /\ Array_get(result.value.a, K_nModified) = IntV(1)
    /\ Array_get(result.value.a, K_updatedExisting) = BoolV(TRUE)
    /\ Array_get(result.value.a, K_err) = ArrV(<<>>)

\* C6: the update mode submitted depends on the options only: upsert when
\* upsert is true (also when multiple is true), update-many when multiple is
\* true and upsert is not, the plain mode otherwise.
C6_UpdateMode ==
    op = "update" =>
        drv_log[1].flags =
            IF IsTrue(options, K_upsert) THEN "MONGOC_UPDATE_UPSERT"
            ELSE IF IsTrue(options, K_multiple) THEN "MONGOC_UPDATE_MULTI_UPDATE"
            ELSE "MONGOC_UPDATE_NONE"

\* C6 witness: multiple and upsert both true, submitted as upsert.
C6_Witness ==
    /\ op = "update"
    /\ IsTrue(options, K_upsert)
    /\ IsTrue(options, K_multiple)
    /\ drv_log[1].flags = "MONGOC_UPDATE_UPSERT"

\* C7: remove submits delete-one exactly when the options hold justOne with
\* a true value, and delete-all-matching otherwise.
C7_DeleteMode ==
    op = "remove" =>
        drv_log[1].flags =
            IF IsTrue(options, K_justOne) THEN "MONGOC_DELETE_SINGLE_REMOVE"
            ELSE "MONGOC_DELETE_NONE"

\* C7 witness: justOne false, submitted as delete-all-matching.
C7_Witness ==
    /\ op = "remove"
    /\ Array_exists(options, K_justOne)
    /\ ~IsTrue(options, K_justOne)
    /\ drv_log[1].flags = "MONGOC_DELETE_NONE"

\* C9: a call submits exactly one write, the first thing it asks of the
\* driver, and nothing after a failed one; the last result is fetched only
\* by update, only after its write succeeded.
C9_SingleSubmit ==
    op # "none" =>
        /\ Len(drv_log) >= 1
        /\ drv_log[1].call = CASE op = "insert" -> "mongoc_collection_insert"
                               [] op = "remove" -> "mongoc_collection_delete"
                               [] op = "update" -> "mongoc_collection_update"
        /\ \A i \in 2..Len(drv_log) : IsFetch(drv_log[i])
        /\ ~drv_ok => Len(drv_log) = 1
        /\ Len(drv_log) > 1 => op = "update" /\ drv_ok /\ Len(drv_log) = 2

\* C9 witness: a successful update: one submit, then one fetch.
C9_Witness ==
    /\ op = "update"
    /\ drv_ok
    /\ Len(drv_log) = 2
    /\ drv_log[1].call = "mongoc_collection_update"
    /\ IsFetch(drv_log[2])

(***************************************************************************)
(* Claims about the decoder, stated for the specification SpecDecode.       *)
(***************************************************************************)
Decoded == dpc = "done" /\ output.res.kind = "return"

\* The bson_t the called function iterates.
Iterated ==
    IF output.fn = "cbson_loads_from_string" THEN bson_reader_read(bson) ELSE bson

IsContainer(type) == type \in {BSON_TYPE_DOCUMENT, BSON_TYPE_ARRAY}

\* A written document is well formed when its elements carry known type
\* tags and valid UTF-8, at every depth.
RECURSIVE WellFormed(_)
WellFormed(elems) ==
    \A i \in 1..Len(elems) :
        /\ elems[i].type # BSON_TYPE_EOD
        /\ elems[i].type = BSON_TYPE_UTF8 => bson_utf8_validate(elems[i].val, TRUE)
        /\ IsContainer(elems[i].type) => WellFormed(elems[i].val)

\* The keys of a written document in wire order, with the keys of every
\* nested container; elements of a type without a visitor (undefined) are
\* not delivered and have no key in the result.
RECURSIVE WireKeys(_)
WireKeys(elems) ==
    IF elems = <<>> THEN <<>>
    ELSE LET e == Head(elems) IN
         (IF e.type = BSON_TYPE_UNDEFINED THEN <<>>
          ELSE <<[k |-> e.key,
                  sub |-> IF IsContainer(e.type) THEN WireKeys(e.val) ELSE <<>>]>>)
         \o WireKeys(Tail(elems))

\* The keys of a decoded Array in iteration order, with those of every
\* nested Array.
RECURSIVE ArrayKeys(_)
ArrayKeys(arr) ==
    [i \in 1..Len(arr) |->
        [k |-> arr[i].k,
         sub |-> IF arr[i].v.t = "arr" THEN ArrayKeys(arr[i].v.a) ELSE <<>>]]

\* C4 (as claimed): decoding a buffer that is cut short, or whose declared
\* length does not match its content, always fails with an exception; no
\* partial Document is returned.
C4_MalformedAlwaysThrows ==
    (dpc = "done" /\ output.fn = "cbson_loads_from_string" /\ damage.kind # "none")
        => output.res.kind = "throw"

\* C8: decoding preserves wire order: for every well-formed document the
\* keys of the decoded Document, and of every nested Document and Array,
\* iterate in the order their elements appear in the buffer.
C8_OrderPreserved ==
    (dpc = "done" /\ damage.kind = "none" /\ WellFormed(wire))
        => /\ output.res.kind = "return"
           /\ ArrayKeys(output.res.value) = WireKeys(wire)

\* C8 witness: a decoded nested document whose keys iterate b, a, c.
C8_Witness ==
    /\ Decoded
    /\ damage.kind = "none"
    /\ WellFormed(wire)
    /\ \E i \in 1..Len(output.res.value) :
          /\ output.res.value[i].k = K_d
          /\ Array_keys(output.res.value[i].v.a) = <<K_b, K_a, K_c>>

\* Whether the decoded Array out of the document raw treats its containers
\* as C10 says, at this level and in every child that was added.
RECURSIVE ContainersSpliced(_, _)
ContainersSpliced(raw, out) ==
    LET its == Elements(raw, 4) IN
    \A i \in 1..Len(its) :
        IsContainer(its[i].type) =>
          LET b == Slice(raw, its[i].d1, U32(raw, its[i].d1)) IN
          bson_init_static(b, Len(b)) =>
            LET child == bson_iter_visit_all(b, 4, <<>>) IN
            /\ Array_exists(out, its[i].key) <=> ~child.stop
            /\ Array_exists(out, its[i].key) =>
                  /\ Array_get(out, its[i].key) = ArrV(child.out)
                  /\ ContainersSpliced(b, child.out)
            /\ \A j \in (i + 1)..Len(its) :
                  its[j].type \in {BSON_TYPE_BOOL, BSON_TYPE_NULL, BSON_TYPE_INT32,
                                   BSON_TYPE_OID}
                      => Array_exists(out, its[j].key)

\* C10: an embedded document or array is decoded into a fresh accumulator,
\* which is added to the parent under the element's key if and only if the
\* child traversal did not signal early termination; either way the parent's
\* remaining elements are still decoded.
C10_ContainerSplice ==
    Decoded => ContainersSpliced(Iterated, output.res.value)

\* C10 witness: a child that signalled early termination was left out and
\* the element after it was decoded.
C10_Witness ==
    /\ Decoded
    /\ damage.kind = "none"
    /\ Len(wire) = 2
    /\ wire[1].key = K_e
    /\ wire[2].type = BSON_TYPE_INT32
    /\ bson_iter_visit_all(bson_new(wire[1].val), 4, <<>>).stop
    /\ Array_keys(output.res.value) = <<wire[2].key>>

(***************************************************************************)
(* Claims about date_time elements, stated for the specification SpecDate.  *)
(***************************************************************************)
DateDecoded ==
    /\ Decoded
    /\ Len(wire) = 1
    /\ wire[1].type = BSON_TYPE_DATE_TIME

\* C11 (as claimed): for every milliseconds-since-epoch value msec of a
\* date_time element, negative values included, the decoded date is the pair
\* (seconds, microseconds) with seconds the integer quotient of msec by 1000
\* and microseconds = (msec mod 1000) * 1000.
C11_DateSplit ==
    DateDecoded =>
        LET msec == wire[1].val IN
        Array_get(output.res.value, wire[1].key)
            = ObjV("MongoDate", <<IntV(msec \div 1000), IntV((msec % 1000) * 1000)>>)

\* C11, the part that holds: the same for msec >= 0, and for every msec the
\* pair adds up to msec milliseconds.
C11_DateSplitNonNegative ==
    DateDecoded =>
        LET msec == wire[1].val
            d == Array_get(output.res.value, wire[1].key)
        IN /\ d.t = "obj" /\ d.cls = "MongoDate"
           /\ d.args[1].i * 1000000 + d.args[2].i = msec * 1000
           /\ msec >= 0 =>
                 d.args = <<IntV(msec \div 1000), IntV((msec % 1000) * 1000)>>

====
